---------------------------- MODULE Spec2Model ----------------------------
(***************************************************************************)
(* A model of package uritemplates (src/uritemplates.go): Parse compiles a *)
(* URI template (RFC 6570) and Expand expands it against a value map.      *)
(*                                                                         *)
(* A Go string is modelled as the sequence of its bytes (0..255).  A Go    *)
(* error is a record [nil, msg, arg]; a *UriTemplate is <<>> (nil) or a    *)
(* one-element sequence holding the template.                              *)
(***************************************************************************)
EXTENDS Integers, Sequences, FiniteSets, TLC

(***************************************************************************)
(* Bytes and string literals                                               *)
(***************************************************************************)
Ord ==
    ("{" :> 123) @@ ("}" :> 125) @@ ("+" :> 43) @@ ("." :> 46) @@ ("/" :> 47) @@
    (";" :> 59) @@ ("?" :> 63) @@ ("&" :> 38) @@ ("#" :> 35) @@ ("," :> 44) @@
    ("*" :> 42) @@ (":" :> 58) @@ ("=" :> 61) @@ ("%" :> 37) @@ ("-" :> 45) @@
    ("_" :> 95) @@ ("~" :> 126) @@ (" " :> 32) @@ ("0" :> 48) @@ ("1" :> 49) @@
    ("2" :> 50) @@ ("7" :> 55) @@ ("A" :> 65) @@ ("X" :> 88) @@ ("Z" :> 90) @@
    ("a" :> 97) @@ ("b" :> 98) @@ ("c" :> 99) @@ ("g" :> 103) @@ ("k" :> 107) @@
    ("r" :> 114) @@ ("v" :> 118) @@ ("z" :> 122)

\* The bytes of a literal written as a tuple of one-character strings.
Str(t) == [i \in 1..Len(t) |-> Ord[t[i]]]

Cat3(x, y, z) == x \o y \o z

\* s[from:] and s[:to] of Go, on 1-based sequences.
SliceFrom(s, n) == SubSeq(s, n + 1, Len(s))
SliceTo(s, n) == SubSeq(s, 1, n)

(***************************************************************************)
(* Library functions of package strings and strconv used by the parser     *)
(***************************************************************************)
\* strings.IndexByte: the 1-based place of the first c in s, 0 when none.
IndexByte(s, c) ==
    IF \E i \in 1..Len(s) : s[i] = c
    THEN CHOOSE i \in 1..Len(s) : s[i] = c /\ \A j \in 1..(i - 1) : s[j] # c
    ELSE 0

Contains(s, c) == IndexByte(s, c) # 0

RECURSIVE Split(_, _)
\* strings.Split(s, sep) for a one-byte separator.
Split(s, c) ==
    LET i == IndexByte(s, c)
    IN IF i = 0 THEN <<s>>
       ELSE <<SubSeq(s, 1, i - 1)>> \o Split(SubSeq(s, i + 1, Len(s)), c)

HasSuffix(s, c) == Len(s) > 0 /\ s[Len(s)] = c

NilErr == [nil |-> TRUE, msg |-> "", arg |-> <<>>]
Err(m, a) == [nil |-> FALSE, msg |-> m, arg |-> a]

IsDigit(b) == b \in 48..57

RECURSIVE DecValue(_)
DecValue(d) ==
    IF Len(d) = 0 THEN 0 ELSE 10 * DecValue(SubSeq(d, 1, Len(d) - 1)) + (d[Len(d)] - 48)

RECURSIVE TrimZeros(_)
\* A digit string without its leading zeros.
TrimZeros(d) == IF Len(d) > 0 /\ d[1] = 48 THEN TrimZeros(SliceFrom(d, 1)) ELSE d

RECURSIVE DigitsLess(_, _)
\* a < b, for digit strings without leading zeros.
DigitsLess(a, b) ==
    IF Len(a) # Len(b) THEN Len(a) < Len(b)
    ELSE IF Len(a) = 0 THEN FALSE
    ELSE IF a[1] # b[1] THEN a[1] < b[1]
    ELSE DigitsLess(Tail(a), Tail(b))

\* The width of int (bitSize 0 of ParseInt) on a 64-bit build.
IntSize == 64

\* The digits of cutoff = 1 << (IntSize - 1) in ParseInt: 9223372036854775808,
\* as bytes.
cutoffDigits ==
    <<57, 50, 50, 51, 51, 55, 50, 48, 51, 54, 56, 53, 52, 55, 55, 53, 56, 48, 56>>

\* The digits of maxVal = 1<<64 - 1 in ParseUint: 18446744073709551615, as bytes.
maxValDigits ==
    <<49, 56, 52, 52, 54, 55, 52, 52, 48, 55, 51, 55, 48, 57, 53, 53, 49, 54, 49, 53>>

RECURSIVE ParseUintFrom(_, _)
\* The loop of strconv.ParseUint(s, 10, 64) at byte i (1-based): a byte that is
\* no digit ends it with the syntax error; a digit that takes the number read so
\* far above maxVal ends it with maxVal and the range error, whatever follows.
\* un is held as digits without leading zeros, as the number need not fit the
\* integers of the model checker; err is "nil", "syntax" or "range".
ParseUintFrom(s, i) ==
    IF i > Len(s) THEN [un |-> TrimZeros(s), err |-> "nil"]
    ELSE IF ~IsDigit(s[i]) THEN [un |-> <<>>, err |-> "syntax"]
    ELSE IF DigitsLess(maxValDigits, TrimZeros(SliceTo(s, i)))
    THEN [un |-> maxValDigits, err |-> "range"]
    ELSE ParseUintFrom(s, i + 1)

\* strconv.ParseUint(s, 10, 64).
ParseUint(s) ==
    IF Len(s) = 0 THEN [un |-> <<>>, err |-> "syntax"] ELSE ParseUintFrom(s, 1)

\* ParseInt after ParseUint returned u: the syntax error goes up; a magnitude
\* of cutoff or more (more than cutoff when negative), which the maxVal of a
\* range error is, gives the nearest int and the range error.
ParseIntEnd(s, neg, u) ==
    IF u.err = "syntax"
    THEN [val |-> 0, err |-> Err("strconv.ParseInt: invalid syntax", s)]
    ELSE IF ~neg /\ ~DigitsLess(u.un, cutoffDigits)
    THEN [val |-> 2 ^ (IntSize - 1) - 1, err |-> Err("strconv.ParseInt: value out of range", s)]
    ELSE IF neg /\ DigitsLess(cutoffDigits, u.un)
    THEN [val |-> 0 - 2 ^ (IntSize - 1), err |-> Err("strconv.ParseInt: value out of range", s)]
    ELSE [val |-> IF neg THEN 0 - DecValue(u.un) ELSE DecValue(u.un), err |-> NilErr]

\* strconv.ParseInt(s, 10, 0): the sign is taken off and the rest goes to ParseUint.
ParseInt(s) ==
    IF Len(s) = 0 THEN [val |-> 0, err |-> Err("strconv.ParseInt: invalid syntax", s)]
    ELSE IF s[1] \in {43, 45} THEN ParseIntEnd(s, s[1] = 45, ParseUint(SliceFrom(s, 1)))
    ELSE ParseIntEnd(s, FALSE, ParseUint(s))

(***************************************************************************)
(* The character classes and percent-encoding                              *)
(***************************************************************************)
IsAlnum(b) == b \in 65..90 \/ b \in 97..122 \/ b \in 48..57

\* The bytes the regexp `unreserved` does NOT match: A-Za-z0-9 - . _ ~
inUnreservedClass(b) ==
    IsAlnum(b) \/ b \in {Ord["-"], Ord["."], Ord["_"], Ord["~"]}

\* The bytes the regexp `reserved` does NOT match: the above and :/?#[]@!$&'()*+,;=
inReservedClass(b) ==
    inUnreservedClass(b)
    \/ b \in {58, 47, 63, 35, 91, 93, 64, 33, 36, 38, 39, 40, 41, 42, 43, 44, 59, 61}

IsCont(s, i) == i <= Len(s) /\ s[i] \in 128..191

\* The width of the rune the regexp engine reads at s[i] (utf8.DecodeRune): a
\* well-formed multi-byte encoding is one rune, any other byte is a rune of width 1.
runeWidth(s, i) ==
    LET b == s[i]
        second == IF i + 1 <= Len(s) THEN s[i + 1] ELSE 0
    IN IF b < 128 THEN 1
       ELSE IF b \in 194..223 THEN (IF IsCont(s, i + 1) THEN 2 ELSE 1)
       ELSE IF b \in 224..239 THEN
            (IF /\ IsCont(s, i + 1) /\ IsCont(s, i + 2)
                /\ (b = 224 => second >= 160)
                /\ (b = 237 => second <= 159)
             THEN 3 ELSE 1)
       ELSE IF b \in 240..244 THEN
            (IF /\ IsCont(s, i + 1) /\ IsCont(s, i + 2) /\ IsCont(s, i + 3)
                /\ (b = 240 => second >= 144)
                /\ (b = 244 => second <= 143)
             THEN 4 ELSE 1)
       ELSE 1

\* "0123456789ABCDEF"
hex == <<48, 49, 50, 51, 52, 53, 54, 55, 56, 57, 65, 66, 67, 68, 69, 70>>

\* pctEncodeByte with a fault: lower-case hexadecimal digits.
pctEncodeByteLower(b) ==
    LET lower == <<48, 49, 50, 51, 52, 53, 54, 55, 56, 57, 97, 98, 99, 100, 101, 102>>
    IN <<37, lower[(b \div 16) + 1], lower[(b % 16) + 1]>>

\* The body of pctEncode's loop: '%', hex[b/16], hex[b%16].
pctEncodeByte(b) == <<37, hex[(b \div 16) + 1], hex[(b % 16) + 1]>>

RECURSIVE pctEncode(_)
pctEncode(src) ==
    IF Len(src) = 0 THEN <<>> ELSE pctEncodeByte(Head(src)) \o pctEncode(Tail(src))

\* Whether the negated character class matches the rune at s[i].
classMatches(s, i, allowReserved) ==
    IF runeWidth(s, i) > 1 THEN TRUE
    ELSE IF allowReserved THEN ~inReservedClass(s[i])
    ELSE ~inUnreservedClass(s[i])

RECURSIVE replaceAllFunc(_, _, _)
\* regexp.ReplaceAllFunc(s, pctEncode) from place i on: every match (one rune)
\* is replaced by pctEncode of its bytes, the rest is copied.
replaceAllFunc(s, i, allowReserved) ==
    IF i > Len(s) THEN <<>>
    ELSE LET w == runeWidth(s, i)
         IN (IF classMatches(s, i, allowReserved)
             THEN pctEncode(SubSeq(s, i, i + w - 1))
             ELSE <<s[i]>>) \o replaceAllFunc(s, i + w, allowReserved)

escape(s, allowReserved) == replaceAllFunc(s, 1, allowReserved)

(***************************************************************************)
(* The template compiler                                                   *)
(***************************************************************************)
\* The zero values of the Go structs.
ZeroPart ==
    [Terms |-> <<>>, Raw |-> <<>>, First |-> <<>>, Sep |-> <<>>, Named |-> FALSE,
     Ifemp |-> <<>>, AllowReserved |-> FALSE]

ZeroTerm == [Name |-> <<>>, Explode |-> FALSE, Truncate |-> 0]

IsHexDigit(b) == b \in 48..57 \/ b \in 65..70 \/ b \in 97..102

RECURSIVE validnameFrom(_, _)
\* ([A-Za-z0-9_.]|%[0-9A-Fa-f][0-9A-Fa-f])* up to the end of s, from place i.
validnameFrom(s, i) ==
    IF i > Len(s) THEN TRUE
    ELSE IF IsAlnum(s[i]) \/ s[i] \in {Ord["_"], Ord["."]} THEN validnameFrom(s, i + 1)
    ELSE IF /\ s[i] = Ord["%"] /\ i + 2 <= Len(s)
            /\ IsHexDigit(s[i + 1]) /\ IsHexDigit(s[i + 2]) THEN validnameFrom(s, i + 3)
    ELSE FALSE

\* validname.MatchString: ^( ... )+$
validname(s) == Len(s) > 0 /\ validnameFrom(s, 1)

\* The end of parseTerm, given the name, the outcome of ParseInt (the zero outcome
\* when there was no prefix length) and the number of pieces the term split in.
\* Each check overwrites the error of the checks before it.
parseTermChecks(explode, name, parsed, pieces) ==
    [term |-> [Name |-> name, Explode |-> explode, Truncate |-> parsed.val],
     err |-> IF explode /\ parsed.val > 0
             THEN Err("both explode and prefix modifers on same term", <<>>)
             ELSE IF ~validname(name) THEN Err("not a valid name: ", name)
             ELSE IF pieces = 1 THEN NilErr
             ELSE IF pieces = 2 THEN parsed.err
             ELSE Err("multiple colons in same term", <<>>)]

\* parseTerm after strings.Split(term, ":"): result.Name stays "" and
\* result.Truncate 0 when there are three pieces or more.
parseTermSplit(explode, term, split) ==
    parseTermChecks(explode,
                    IF Len(split) = 1 THEN term
                    ELSE IF Len(split) = 2 THEN split[1] ELSE <<>>,
                    IF Len(split) = 2 THEN ParseInt(split[2])
                    ELSE [val |-> 0, err |-> NilErr],
                    Len(split))

parseTerm(term) ==
    IF HasSuffix(term, Ord["*"])
    THEN parseTermSplit(TRUE, SliceTo(term, Len(term) - 1),
                        Split(SliceTo(term, Len(term) - 1), Ord[":"]))
    ELSE parseTermSplit(FALSE, term, Split(term, Ord[":"]))

RECURSIVE parseTerms(_, _, _)
\* One turn of the loop over rawterms, r being parseTerm(rawterms[i]): the term is
\* stored, and the loop stops at the first error.
parseTermsStep(rawterms, i, terms, r) ==
    IF ~r.err.nil THEN [terms |-> [terms EXCEPT ![i] = r.term], err |-> r.err]
    ELSE parseTerms(rawterms, i + 1, [terms EXCEPT ![i] = r.term])

\* The loop over rawterms of parseExpression.
parseTerms(rawterms, i, terms) ==
    IF i > Len(rawterms) THEN [terms |-> terms, err |-> NilErr]
    ELSE parseTermsStep(rawterms, i, terms, parseTerm(rawterms[i]))

\* The operator table of parseExpression's switch.
operatorPart(c) ==
    IF c = 43 THEN [ZeroPart EXCEPT !.Sep = <<44>>, !.AllowReserved = TRUE]
    ELSE IF c = 46 THEN [ZeroPart EXCEPT !.First = <<46>>, !.Sep = <<46>>]
    ELSE IF c = 47 THEN [ZeroPart EXCEPT !.First = <<47>>, !.Sep = <<47>>]
    ELSE IF c = 59 THEN [ZeroPart EXCEPT !.First = <<59>>, !.Sep = <<59>>, !.Named = TRUE]
    ELSE IF c = 63 THEN [ZeroPart EXCEPT !.First = <<63>>, !.Sep = <<38>>, !.Named = TRUE,
                                         !.Ifemp = <<61>>]
    ELSE IF c = 38 THEN [ZeroPart EXCEPT !.First = <<38>>, !.Sep = <<38>>, !.Named = TRUE,
                                         !.Ifemp = <<61>>]
    ELSE IF c = 35 THEN [ZeroPart EXCEPT !.First = <<35>>, !.Sep = <<44>>,
                                         !.AllowReserved = TRUE]
    ELSE [ZeroPart EXCEPT !.Sep = <<44>>]

\* '+' '.' '/' ';' '?' '&' '#'
OperatorBytes == {43, 46, 47, 59, 63, 38, 35}

\* The end of parseExpression, r being the outcome of the loop over the terms.
parseExpressionResult(c, r) ==
    [panic |-> FALSE, part |-> [operatorPart(c) EXCEPT !.Terms = r.terms], err |-> r.err]

parseExpressionTerms(c, rawterms) ==
    parseExpressionResult(c, parseTerms(rawterms, 1, [i \in 1..Len(rawterms) |-> ZeroTerm]))

\* parseExpression: expression[0] of an empty expression is an index out of
\* range, a run-time panic.
parseExpression(expression) ==
    IF Len(expression) = 0
    THEN [panic |-> TRUE, part |-> ZeroPart, err |-> NilErr]
    ELSE parseExpressionTerms(expression[1],
                              Split(IF expression[1] \in OperatorBytes
                                    THEN SliceFrom(expression, 1) ELSE expression,
                                    Ord[","]))

RECURSIVE parseLoop(_, _, _)
\* The else branch of Parse's loop after the test of len(subsplit), e being
\* parseExpression(subsplit[0]).
parseLoopExpression(split, i, parts, subsplit, e) ==
    IF e.panic THEN [panic |-> TRUE, parts |-> parts, err |-> NilErr]
    ELSE IF ~e.err.nil
    THEN [panic |-> FALSE, parts |-> [parts EXCEPT ![2 * (i - 1)] = e.part], err |-> e.err]
    ELSE parseLoop(split, i + 1,
                   [parts EXCEPT ![2 * (i - 1)] = e.part,
                                 ![2 * (i - 1) + 1].Raw = subsplit[2]])

parseLoopChunk(split, i, parts, subsplit) ==
    IF Len(subsplit) # 2
    THEN [panic |-> FALSE, parts |-> parts, err |-> Err("malformed template", <<>>)]
    ELSE parseLoopExpression(split, i, parts, subsplit, parseExpression(subsplit[1]))

\* The loop of Parse over split (i is Go's i + 1); parts is template.Parts.
parseLoop(split, i, parts) ==
    IF i > Len(split) THEN [panic |-> FALSE, parts |-> parts, err |-> NilErr]
    ELSE IF i = 1 THEN
        IF Contains(split[1], Ord["}"])
        THEN [panic |-> FALSE, parts |-> parts, err |-> Err("unexpected }", <<>>)]
        ELSE parseLoop(split, 2, [parts EXCEPT ![1].Raw = split[1]])
    ELSE parseLoopChunk(split, i, parts, Split(split[i], Ord["}"]))

\* The end of Parse, r being the outcome of its loop: template = nil on an error.
parseResult(rawtemplate, r) ==
    IF r.panic THEN [panic |-> TRUE, template |-> <<>>, err |-> NilErr]
    ELSE [panic |-> FALSE,
          template |-> IF ~r.err.nil THEN <<>>
                       ELSE <<[Parts |-> r.parts, Raw |-> rawtemplate]>>,
          err |-> r.err]

parseSplit(rawtemplate, split) ==
    parseResult(rawtemplate,
                parseLoop(split, 1, [i \in 1..(2 * Len(split) - 1) |-> ZeroPart]))

\* Parse: the outcome is a panic, or the pair (template, err).
Parse(rawtemplate) == parseSplit(rawtemplate, Split(rawtemplate, Ord["{"]))

(***************************************************************************)
(* The expansion engine                                                    *)
(*                                                                         *)
(* A value of the value map is a record [kind, s, a, m]:                   *)
(*   "nil"     the nil interface;                                          *)
(*   "string"  a Go string, s;                                             *)
(*   "array"   a []interface{}, a: each element is held as the string the  *)
(*             type switch of expandArray yields for it (the string        *)
(*             itself, or its fmt.Sprintf("%v") rendering);                *)
(*   "map"     a map[string]interface{}, m, its values held likewise;      *)
(*   "struct"  a struct (or pointer to one) whose fields are all exported;  *)
(*             m is what struct2map returns;                               *)
(*   "unexported"  a struct (or pointer to one) with an unexported field;  *)
(*   "nilptr"  a nil pointer, of whatever type;                            *)
(*   "other"   any other value; s is its fmt.Sprintf("%v") rendering.      *)
(* A name that is not in the DOMAIN of the value map is absent.            *)
(***************************************************************************)
NoKeys == [k \in {} |-> <<>>]
NilVal == [kind |-> "nil", s |-> <<>>, a |-> <<>>, m |-> NoKeys]
StringVal(s) == [kind |-> "string", s |-> s, a |-> <<>>, m |-> NoKeys]
ArrayVal(a) == [kind |-> "array", s |-> <<>>, a |-> a, m |-> NoKeys]
MapVal(m) == [kind |-> "map", s |-> <<>>, a |-> <<>>, m |-> m]
StructVal(m) == [kind |-> "struct", s |-> <<>>, a |-> <<>>, m |-> m]
UnexportedVal == [kind |-> "unexported", s |-> <<>>, a |-> <<>>, m |-> NoKeys]
NilPtrVal == [kind |-> "nilptr", s |-> <<>>, a |-> <<>>, m |-> NoKeys]
OtherVal(s) == [kind |-> "other", s |-> s, a |-> <<>>, m |-> NoKeys]

\* struct2map: (m, true) for a struct or a pointer to one, (nil, false) otherwise.
\* It panics in reflect on the nil interface (Type of the zero Value), on a nil
\* pointer (Interface of the zero Value that Elem returns) and on a struct with an
\* unexported field (Interface of that field).
struct2map(v) ==
    IF v.kind \in {"nil", "nilptr", "unexported"}
    THEN [panic |-> TRUE, m |-> NoKeys, ismap |-> FALSE]
    ELSE IF v.kind = "struct" THEN [panic |-> FALSE, m |-> v.m, ismap |-> TRUE]
    ELSE [panic |-> FALSE, m |-> NoKeys, ismap |-> FALSE]

expandName(part, buf, name, empty) ==
    IF part.Named
    THEN buf \o name \o (IF empty THEN part.Ifemp ELSE <<61>>)
    ELSE buf

\* The truncation of expandString and expandArray: s[:t.Truncate].
truncated(t, s) ==
    IF Len(s) > t.Truncate /\ t.Truncate > 0 THEN SliceTo(s, t.Truncate) ELSE s

\* expandString after the truncation.
expandStringTruncated(part, buf, t, s) ==
    expandName(part, buf, t.Name, Len(s) = 0) \o escape(s, part.AllowReserved)

expandString(part, buf, t, s) == expandStringTruncated(part, buf, t, truncated(t, s))

\* One element of expandArray's loop, after its separator and its truncation.
expandArrayElem(part, buf, t, s) ==
    (IF part.Named /\ t.Explode THEN expandName(part, buf, t.Name, Len(s) = 0) ELSE buf)
    \o escape(s, part.AllowReserved)

RECURSIVE expandArrayLoop(_, _, _, _, _)
\* The range loop of expandArray from element i (1-based) on.
expandArrayLoop(part, buf, t, a, i) ==
    IF i > Len(a) THEN buf
    ELSE expandArrayLoop(part,
                         expandArrayElem(part,
                                         IF t.Explode /\ i > 1 THEN buf \o part.Sep
                                         ELSE IF i > 1 THEN buf \o <<44>>
                                         ELSE buf,
                                         t, truncated(t, a[i])),
                         t, a, i + 1)

expandArray(part, buf, t, a) ==
    IF Len(a) = 0 THEN buf
    ELSE expandArrayLoop(part, IF ~t.Explode THEN expandName(part, buf, t.Name, FALSE)
                               ELSE buf, t, a, 1)

\* One pair of expandMap's loop, after its separator: key=value when exploded,
\* key,value otherwise.
expandMapPair(part, buf, t, k, s) ==
    Cat3(buf \o escape(k, part.AllowReserved),
         IF t.Explode THEN <<61>> ELSE <<44>>,
         escape(s, part.AllowReserved))

RECURSIVE expandMapLoop(_, _, _, _, _, _, _)
\* The range loop of expandMap; keys is the order in which this run of the loop
\* visits the keys of m (Go leaves the iteration order of a map unspecified).
expandMapLoop(part, buf, t, m, keys, i, firstLen) ==
    IF i > Len(keys) THEN buf
    ELSE expandMapLoop(part,
                       expandMapPair(part,
                                     IF firstLen # Len(buf)
                                     THEN buf \o (IF t.Explode THEN part.Sep ELSE <<44>>)
                                     ELSE buf,
                                     t, keys[i], m[keys[i]]),
                       t, m, keys, i + 1, firstLen)

\* expandMap after the test of len(m) and the name prefix.
expandMapFrom(part, buf, t, m, keys) == expandMapLoop(part, buf, t, m, keys, 1, Len(buf))

expandMap(part, buf, t, m, keys) ==
    IF Cardinality(DOMAIN m) = 0 THEN buf
    ELSE expandMapFrom(part,
                       IF ~t.Explode
                       THEN expandName(part, buf, t.Name, Cardinality(DOMAIN m) = 0)
                       ELSE buf,
                       t, m, keys)

\* The keys of m in the order a permutation ord of all keys lists them.
RECURSIVE iterationOrder(_, _)
iterationOrder(m, ord) ==
    IF Len(ord) = 0 THEN <<>>
    ELSE (IF Head(ord) \in DOMAIN m THEN <<Head(ord)>> ELSE <<>>)
         \o iterationOrder(m, Tail(ord))

ErrTruncateMap == Err("cannot truncate a map expansion", <<>>)

\* expandTerm with a fault: the separator is written before the term is looked up,
\* so an absent or nil variable still consumes a separator.
expandTermSepFirst(part, term, values, ord, firstLen, st) ==
    LET b0 == IF Len(st.buf) # firstLen THEN st.buf \o part.Sep ELSE st.buf
    IN IF term.Name \notin DOMAIN values \/ values[term.Name].kind = "nil"
       THEN [st EXCEPT !.buf = b0]
       ELSE LET value == values[term.Name]
                zl == IF value.kind = "string" /\ Len(value.s) = 0 THEN firstLen
                      ELSE st.zeroLen
            IN IF value.kind = "string"
               THEN [buf |-> expandString(part, b0, term, value.s), zeroLen |-> zl,
                     err |-> NilErr, panic |-> FALSE]
               ELSE IF value.kind = "array"
               THEN [buf |-> expandArray(part, b0, term, value.a), zeroLen |-> zl,
                     err |-> NilErr, panic |-> FALSE]
               ELSE IF struct2map(value).panic
               THEN [buf |-> b0, zeroLen |-> zl, err |-> NilErr, panic |-> TRUE]
               ELSE IF value.kind \in {"map", "struct"}
               THEN IF term.Truncate > 0
                    THEN [buf |-> b0, zeroLen |-> zl, err |-> ErrTruncateMap,
                       panic |-> FALSE]
                    ELSE [buf |-> expandMap(part, b0, term, value.m,
                                            iterationOrder(value.m, ord)),
                          zeroLen |-> zl, err |-> NilErr, panic |-> FALSE]
               ELSE [buf |-> expandString(part, b0, term, value.s), zeroLen |-> zl,
                     err |-> NilErr, panic |-> FALSE]

\* The body of the loop over self.Terms in TemplatePart.expand, for one term.
\* st is [buf, zeroLen, err, panic]; ord is the order in which a map value is
\* ranged over.
expandTerm(part, term, values, ord, firstLen, st) ==
    IF term.Name \notin DOMAIN values \/ values[term.Name].kind = "nil" THEN st
    ELSE LET value == values[term.Name]
             \* value == "": true only of a string that is empty
             zl == IF value.kind = "string" /\ Len(value.s) = 0 THEN firstLen
                   ELSE st.zeroLen
             b0 == IF Len(st.buf) # firstLen THEN st.buf \o part.Sep ELSE st.buf
         IN IF value.kind = "string"
            THEN [buf |-> expandString(part, b0, term, value.s), zeroLen |-> zl,
                  err |-> NilErr, panic |-> FALSE]
            ELSE IF value.kind = "array"
            THEN [buf |-> expandArray(part, b0, term, value.a), zeroLen |-> zl,
                  err |-> NilErr, panic |-> FALSE]
            ELSE IF value.kind = "map"
            THEN IF term.Truncate > 0
                 THEN [buf |-> b0, zeroLen |-> zl, err |-> ErrTruncateMap,
                       panic |-> FALSE]
                 ELSE [buf |-> expandMap(part, b0, term, value.m,
                                         iterationOrder(value.m, ord)),
                       zeroLen |-> zl, err |-> NilErr, panic |-> FALSE]
            ELSE IF struct2map(value).panic
            THEN [buf |-> b0, zeroLen |-> zl, err |-> NilErr, panic |-> TRUE]
            ELSE IF struct2map(value).ismap
            THEN IF term.Truncate > 0
                 THEN [buf |-> b0, zeroLen |-> zl, err |-> ErrTruncateMap,
                       panic |-> FALSE]
                 ELSE [buf |-> expandMap(part, b0, term, struct2map(value).m,
                                         iterationOrder(struct2map(value).m, ord)),
                       zeroLen |-> zl, err |-> NilErr, panic |-> FALSE]
            ELSE [buf |-> expandString(part, b0, term, value.s), zeroLen |-> zl,
                  err |-> NilErr, panic |-> FALSE]

RECURSIVE expandTerms(_, _, _, _, _, _)
\* The loop over self.Terms from term i on; it returns at the first error and
\* ends at a panic.  ords[i] is the iteration order of term i's map.
expandTerms(part, values, ords, firstLen, i, st) ==
    IF i > Len(part.Terms) \/ ~st.err.nil \/ st.panic THEN st
    ELSE expandTerms(part, values, ords, firstLen, i + 1,
                     expandTerm(part, part.Terms[i], values, ords[i], firstLen, st))

\* rollback with a fault: the buffer is always cut back to where the expression began.
rollbackToStart(buf, zeroLen, firstLen, startLen) ==
    IF Len(buf) = firstLen THEN SliceTo(buf, startLen) ELSE buf

\* The end of TemplatePart.expand: with nothing written after the leading string,
\* the buffer is cut back to zeroLen.  (startLen, the length before the leading
\* string, is not read by the code.)
rollback(buf, zeroLen, firstLen, startLen) ==
    IF Len(buf) = firstLen THEN SliceTo(buf, zeroLen) ELSE buf

\* The end of TemplatePart.expand, st being the outcome of the loop over the
\* terms: the new buffer, the error, and whether the buffer grew after the leading
\* string (buf.Len() != firstLen at the last test).
expandEnd(st, firstLen, zeroLen) ==
    IF st.panic THEN [buf |-> st.buf, err |-> NilErr, wrote |-> FALSE, panic |-> TRUE]
    ELSE IF ~st.err.nil
    THEN [buf |-> st.buf, err |-> st.err, wrote |-> FALSE, panic |-> FALSE]
    ELSE [buf |-> rollback(st.buf, st.zeroLen, firstLen, zeroLen),
          err |-> NilErr, wrote |-> Len(st.buf) # firstLen, panic |-> FALSE]

\* TemplatePart.expand on buffer buf.
expand(part, buf, values, ords) ==
    IF Len(part.Raw) > 0
    THEN [buf |-> buf \o part.Raw, err |-> NilErr, wrote |-> TRUE, panic |-> FALSE]
    ELSE expandEnd(expandTerms(part, values, ords, Len(buf) + Len(part.First), 1,
                               [buf |-> buf \o part.First, zeroLen |-> Len(buf),
                                err |-> NilErr, panic |-> FALSE]),
                   Len(buf) + Len(part.First), Len(buf))

RECURSIVE expandParts(_, _, _, _, _)
\* One turn of Expand's loop, r being p.expand(&buf, values).
expandPartsStep(parts, values, ords, i, r) ==
    IF r.panic THEN [out |-> <<>>, err |-> NilErr, panic |-> TRUE]
    ELSE IF ~r.err.nil THEN [out |-> <<>>, err |-> r.err, panic |-> FALSE]
    ELSE expandParts(parts, values, ords, i + 1, r.buf)

\* The loop of Expand over self.Parts from part i on: a panic, or (string, error).
\* ords[i][j] is the iteration order for term j of part i.
expandParts(parts, values, ords, i, buf) ==
    IF i > Len(parts) THEN [out |-> buf, err |-> NilErr, panic |-> FALSE]
    ELSE expandPartsStep(parts, values, ords, i, expand(parts[i], buf, values, ords[i]))

(***************************************************************************)
(* The state machine: one call of Parse, then calls of Expand              *)
(***************************************************************************)
VARIABLES
    raw,      \* the template string given to Parse
    value,    \* the argument of Expand: [kind, m], kind "map", "struct", "unexported",
              \* "nilptr", "nil" or "other"
    pc,       \* "start", "panicked" (in Parse), "failed", "parsed", "expanding",
              \* "xpanicked" (in Expand), "done"
    template, \* what Parse returned: <<>> (nil) or <<t>>
    perr,     \* the error Parse returned
    idx,      \* the part of self.Parts the loop of Expand is at (1-based)
    buf,      \* Expand's bytes.Buffer
    marks,    \* history: the buffer after each part expanded so far
    wrotes,   \* history: for each part expanded, whether its terms grew the buffer
    out,      \* the string Expand returned
    xerr,     \* the error Expand returned
    prev      \* history: <<>> or the (string, error) of the previous call of Expand

vars == <<raw, value, pc, template, perr, idx, buf, marks, wrotes, out, xerr, prev>>

\* The keys of the map values, and the orders a range loop may visit them in.
KeyOne == Str(<<"k">>)
KeyTwo == Str(<<"r">>)
KeyOrders == {<<KeyOne, KeyTwo>>, <<KeyTwo, KeyOne>>}

\* The state after Parse returned r.
Parsed(r) ==
    /\ pc' = IF r.panic THEN "panicked" ELSE IF ~r.err.nil THEN "failed" ELSE "parsed"
    /\ template' = r.template
    /\ perr' = r.err

\* Parse(raw).
DoParse ==
    /\ pc = "start"
    /\ Parsed(Parse(raw))
    /\ UNCHANGED <<raw, value, idx, buf, marks, wrotes, out, xerr, prev>>

\* Expand up to its loop: the type assertion on its argument, and struct2map.
BeginExpand ==
    /\ pc = "parsed"
    /\ IF value.kind # "map" /\ struct2map(value).panic
       THEN /\ pc' = "xpanicked"
            /\ UNCHANGED <<idx, buf, out, xerr>>
       ELSE IF value.kind = "map" \/ struct2map(value).ismap
       THEN /\ pc' = "expanding"
            /\ idx' = 1
            /\ buf' = <<>>
            /\ UNCHANGED <<out, xerr>>
       ELSE /\ pc' = "done"
            /\ out' = <<>>
            /\ xerr' = Err("expected map[string]interface{}, struct, or pointer to struct.", <<>>)
            /\ UNCHANGED <<idx, buf>>
    /\ marks' = <<>>
    /\ wrotes' = <<>>
    /\ UNCHANGED <<raw, value, template, perr, prev>>

\* The state after p.expand ended in r: a panic goes up through Expand, and
\* Expand returns ("", err) on an error.
Expanded(r) ==
    IF r.panic
    THEN /\ pc' = "xpanicked"
         /\ UNCHANGED <<idx, buf, marks, wrotes, out, xerr>>
    ELSE IF ~r.err.nil
    THEN /\ pc' = "done"
         /\ out' = <<>>
         /\ xerr' = r.err
         /\ UNCHANGED <<idx, buf, marks, wrotes>>
    ELSE /\ buf' = r.buf
         /\ idx' = idx + 1
         /\ marks' = Append(marks, r.buf)
         /\ wrotes' = Append(wrotes, r.wrote)
         /\ UNCHANGED <<pc, out, xerr>>

\* One turn of Expand's loop: p.expand(&buf, values).
ExpandPart ==
    /\ pc = "expanding"
    /\ idx <= Len(template[1].Parts)
    /\ \E ords \in [1..Len(template[1].Parts[idx].Terms) -> KeyOrders] :
         Expanded(expand(template[1].Parts[idx], buf, value.m, ords))
    /\ UNCHANGED <<raw, value, template, perr, prev>>

\* The end of Expand: return buf.String(), nil.
FinishExpand ==
    /\ pc = "expanding"
    /\ idx > Len(template[1].Parts)
    /\ pc' = "done"
    /\ out' = buf
    /\ xerr' = NilErr
    /\ UNCHANGED <<raw, value, template, perr, idx, buf, marks, wrotes, prev>>

\* The caller expands the same template against the same values once more.
ExpandAgain ==
    /\ pc = "done"
    /\ prev' = <<[out |-> out, err |-> xerr, panic |-> FALSE]>>
    /\ pc' = "parsed"
    /\ idx' = 0
    /\ buf' = <<>>
    /\ marks' = <<>>
    /\ wrotes' = <<>>
    /\ out' = <<>>
    /\ xerr' = NilErr
    /\ UNCHANGED <<raw, value, template, perr>>

Fresh ==
    /\ pc = "start"
    /\ template = <<>>
    /\ perr = NilErr
    /\ idx = 0
    /\ buf = <<>>
    /\ marks = <<>>
    /\ wrotes = <<>>
    /\ out = <<>>
    /\ xerr = NilErr
    /\ prev = <<>>

(***************************************************************************)
(* Inputs                                                                  *)
(***************************************************************************)
\* The most terms in an expression of the expansion inputs.
MaxTerms == 2
\* The longest string given to Parse as free text, and the longest term text.
MaxRawLen == 4
MaxTermLen == 4
\* The longest string value of the escaping inputs.
MaxEscLen == 2

RECURSIVE SeqsUpTo(_, _)
\* All sequences over S of length at most n.
SeqsUpTo(S, n) ==
    IF n = 0 THEN {<<>>}
    ELSE LET shorter == SeqsUpTo(S, n - 1)
         IN shorter \cup {Append(q, x) : q \in {t \in shorter : Len(t) = n - 1}, x \in S}

\* "" and the seven operator characters.
OpTexts == {<<>>, <<43>>, <<46>>, <<47>>, <<59>>, <<63>>, <<38>>, <<35>>}

\* The i-th variable name: a, b, c, ...
VarName(i) == <<96 + i>>

\* No modifier, explode, prefix length 1.
Modifiers == {<<>>, Str(<<"*">>), Str(<<":", "1">>)}

AbsentMark == [kind |-> "absent", s |-> <<>>, a |-> <<>>, m |-> NoKeys]

TwoKeys == (KeyOne :> Str(<<"1">>)) @@ (KeyTwo :> Str(<<"2">>))

\* What a variable may be: absent, nil, a string, a sequence or a map.
Choices ==
    {AbsentMark, NilVal, StringVal(<<>>), StringVal(Str(<<"a", "/">>)),
     ArrayVal(<<>>), ArrayVal(<< <<>> >>), ArrayVal(<<Str(<<"r">>), Str(<<"g", " ">>)>>),
     MapVal(NoKeys), MapVal(TwoKeys)}

\* The value map of choices c (a function from names to Choices).
ValueMap(c) == [n \in {x \in DOMAIN c : c[x].kind # "absent"} |-> c[n]]

RECURSIVE JoinTerms(_, _, _)
\* name1 mod1 , name2 mod2 , ... for terms i..n
JoinTerms(mods, i, n) ==
    IF i > n THEN <<>>
    ELSE (IF i > 1 THEN Str(<<",">>) ELSE <<>>) \o VarName(i) \o mods[i]
         \o JoinTerms(mods, i + 1, n)

\* X{ op terms }Z
ExprTemplate(op, mods, n) ==
    Str(<<"X", "{">>) \o op \o JoinTerms(mods, 1, n) \o Str(<<"}", "Z">>)

\* Expansion inputs: one expression of up to MaxTerms terms between two literals,
\* every operator, every modifier, every choice of values.
InitExpand ==
    /\ Fresh
    /\ \E n \in 1..MaxTerms :
         \E op \in OpTexts, mods \in [1..n -> Modifiers], c \in [1..n -> Choices] :
            /\ raw = ExprTemplate(op, mods, n)
            /\ value = [kind |-> "map",
                        m |-> ValueMap([x \in {VarName(i) : i \in 1..n} |->
                                            c[CHOOSE i \in 1..n : VarName(i) = x]])]

ParseAlphabet == {Ord["{"], Ord["}"], Ord["a"], Ord[":"], Ord["*"], Ord[","], Ord["/"], Ord["1"]}
TermAlphabet == {Ord["a"], Ord[":"], Ord["*"], Ord["0"], Ord["1"], Ord["-"]}

\* Parser inputs: every short string over the template syntax, and every short
\* term text in braces; what parses is expanded against maps (holding a string,
\* an int, a struct, a struct with an unexported field, a nil pointer), a struct,
\* an int, a struct with an unexported field, a nil pointer and nil.
InitParse ==
    /\ Fresh
    /\ raw \in SeqsUpTo(ParseAlphabet, MaxRawLen)
               \cup {Cat3(Str(<<"{">>), t, Str(<<"}">>)) : t \in SeqsUpTo(TermAlphabet, MaxTermLen)}
    /\ value \in {[kind |-> "map", m |-> (VarName(1) :> StringVal(Str(<<"a", "/">>)))],
                  [kind |-> "map", m |-> (VarName(1) :> OtherVal(Str(<<"7">>)))],
                  [kind |-> "map", m |-> (VarName(1) :> StructVal(TwoKeys))],
                  [kind |-> "map", m |-> (VarName(1) :> UnexportedVal)],
                  [kind |-> "map", m |-> (VarName(1) :> NilPtrVal)],
                  [kind |-> "struct", m |-> (VarName(1) :> StringVal(Str(<<"a", "/">>)))],
                  [kind |-> "other", m |-> NoKeys],
                  [kind |-> "unexported", m |-> NoKeys],
                  [kind |-> "nilptr", m |-> NoKeys],
                  [kind |-> "nil", m |-> NoKeys]}

\* A sample of bytes: unreserved, reserved, neither, NUL, and UTF-8 lead,
\* continuation and invalid bytes.
EscBytes == {Ord["A"], Ord["z"], Ord["0"], Ord["~"], Ord["/"], Ord["="], Ord[" "], Ord["%"],
             0, 195, 169, 255}

\* Escaping inputs: {op v} for every operator, v a string: every single byte, and
\* every string over EscBytes of at most MaxEscLen bytes.
InitEscape ==
    /\ Fresh
    /\ \E op \in OpTexts :
         raw = Str(<<"{">>) \o op \o Str(<<"v", "}">>)
    /\ \E s \in SeqsUpTo(EscBytes, MaxEscLen) \cup {<<b>> : b \in 0..255} :
         value = [kind |-> "map", m |-> (Str(<<"v">>) :> StringVal(s))]

Next == DoParse \/ BeginExpand \/ ExpandPart \/ FinishExpand

NextRepeat == Next \/ ExpandAgain

\* Expansion of one-expression templates.
Spec == InitExpand /\ [][Next]_vars

\* The parser on free text.
SpecParse == InitParse /\ [][Next]_vars

\* Escaping of string values under every operator.
SpecEscape == InitEscape /\ [][Next]_vars

\* The same template expanded against the same values again and again.
SpecRepeat == InitExpand /\ [][NextRepeat]_vars

(***************************************************************************)
(* Vocabulary of the properties                                            *)
(***************************************************************************)
IsPrefix(p, s) == Len(p) <= Len(s) /\ SubSeq(s, 1, Len(p)) = p

Parts == template[1].Parts

\* Expand has gone through Parse and the type assertion.
Expanding == pc \in {"expanding", "done"} /\ template # <<>>

\* Expand returned a string and no error.
Returned == pc = "done" /\ template # <<>> /\ xerr.nil

Outcome == [out |-> out, err |-> xerr, panic |-> pc = "xpanicked"]

\* The variable of term t is absent from the value map or mapped to nil.
Omitted(t) == t.Name \notin DOMAIN value.m \/ value.m[t.Name].kind = "nil"

Defined(t) == ~Omitted(t)

\* The buffer before part i was expanded.
Before(i) == IF i = 1 THEN <<>> ELSE marks[i - 1]

\* The most terms of one part.
Widest(parts) ==
    CHOOSE n \in {Len(parts[i].Terms) : i \in DOMAIN parts} :
        \A i \in DOMAIN parts : Len(parts[i].Terms) <= n

\* Every (string, error) Expand may return for these parts and values, over the
\* orders in which the maps may be ranged over.
Outcomes(parts, values) ==
    {expandParts(parts, values, [i \in 1..Len(parts) |-> o], 1, <<>>) :
        o \in [1..Widest(parts) -> KeyOrders]}

\* The parts with the omitted terms not declared.
Pruned(parts) ==
    [i \in 1..Len(parts) |-> [parts[i] EXCEPT !.Terms = SelectSeq(parts[i].Terms, Defined)]]

RECURSIVE Join(_, _)
\* The pieces joined by sep.
Join(pieces, sep) ==
    IF Len(pieces) = 0 THEN <<>>
    ELSE IF Len(pieces) = 1 THEN pieces[1]
    ELSE pieces[1] \o sep \o Join(Tail(pieces), sep)

(***************************************************************************)
(* C1  Omission law                                                        *)
(***************************************************************************)
\* C1: a term whose variable is absent or nil writes nothing and no separator: an
\* expression all of whose terms are omitted leaves the buffer as it was before
\* the expression (leading string discarded), and what Expand returns is what it
\* may return for the template with the omitted terms not declared.
C1_OmissionLaw ==
    Expanding =>
        /\ \A i \in 1..Len(marks) :
             (Len(Parts[i].Raw) = 0 /\ \A j \in 1..Len(Parts[i].Terms) : Omitted(Parts[i].Terms[j]))
                 => marks[i] = Before(i)
        /\ pc = "done" => Outcome \in Outcomes(Pruned(Parts), value.m)

\* An expansion has returned where a declared term was omitted after a term that
\* wrote content, and one where every term of the expression was omitted.
C1_Witness ==
    /\ pc = "done" /\ template # <<>> /\ xerr.nil
    /\ Len(Parts[2].Terms) = 2
    /\ Defined(Parts[2].Terms[1]) /\ value.m[Parts[2].Terms[1].Name].kind = "string"
    /\ Len(value.m[Parts[2].Terms[1].Name].s) > 0
    /\ Omitted(Parts[2].Terms[2])
    /\ Parts[2].First = <<47>>
    /\ out = <<88, 47, 97, 37, 50, 70, 90>>

(***************************************************************************)
(* C2  Parse returns a template or an error                                *)
(***************************************************************************)
\* C2: Parse ends with a template and no error, or with an error and no template;
\* it never panics.
C2_ParseTotal ==
    pc # "start" =>
        /\ pc # "panicked"
        /\ \/ template # <<>> /\ perr.nil
           \/ template = <<>> /\ ~perr.nil

(***************************************************************************)
(* C3  Explode and prefix length exclude each other                        *)
(***************************************************************************)
\* The template is {name:N*}: one term with a prefix length of decimal digits and
\* a trailing '*'.
ExplodeAndPrefix ==
    /\ Len(raw) >= 5
    /\ raw[1] = 123 /\ raw[Len(raw)] = 125 /\ raw[Len(raw) - 1] = 42
    /\ \E k \in 2..(Len(raw) - 3) :
         /\ raw[k] = 58
         /\ \A j \in (k + 1)..(Len(raw) - 2) : IsDigit(raw[j])
         /\ \A j \in 2..(k - 1) : raw[j] \notin {123, 125, 44, 58}

\* C3: a term with both a trailing '*' and a ':N' prefix length makes Parse fail
\* and return no template.
C3_ExplodeExcludesPrefix ==
    (pc # "start" /\ ExplodeAndPrefix) => (pc = "failed" /\ template = <<>> /\ ~perr.nil)

(***************************************************************************)
(* C4  Expand is a function of template and values                         *)
(***************************************************************************)
\* C4: a second expansion of the same template against the same values returns
\* the string and the error the first one returned.
C4_ExpandDeterministic ==
    (pc = "done" /\ prev # <<>>) => prev[1] = Outcome

(***************************************************************************)
(* C5  Escaping policy                                                     *)
(***************************************************************************)
UnreservedBytes == (65..90) \cup (97..122) \cup (48..57) \cup {45, 46, 95, 126}

\* : / ? # [ ] @ ! $ & ' ( ) * + , ; =
ReservedBytes == {58, 47, 63, 35, 91, 93, 64, 33, 36, 38, 39, 40, 41, 42, 43, 44, 59, 61}

Permitted(allowReserved) ==
    IF allowReserved THEN UnreservedBytes \cup ReservedBytes ELSE UnreservedBytes

\* The upper-case hexadecimal digit of n in 0..15.
UpperHex(n) == IF n < 10 THEN 48 + n ELSE 55 + n

RECURSIVE Escaped(_, _)
\* The policy, byte by byte: a permitted byte stays, any other byte b becomes
\* '%' and the two upper-case hexadecimal digits of b.
Escaped(s, allowReserved) ==
    IF Len(s) = 0 THEN <<>>
    ELSE (IF Head(s) \in Permitted(allowReserved) THEN <<Head(s)>>
          ELSE <<37, UpperHex(Head(s) \div 16), UpperHex(Head(s) % 16)>>)
         \o Escaped(Tail(s), allowReserved)

\* The string value of variable v, and the operator of the template {op v}.
EscInput == value.m[<<118>>].s
EscOperator == IF raw[2] \in OperatorBytes THEN <<raw[2]>> ELSE <<>>

\* C5: escape follows the policy for both classes; only the operators '+' and '#'
\* use the reserved-allowed class, so the expansion of {op v} for a non-empty
\* string v is the leading string, the name prefix and the policy's escaping of v;
\* a string of unreserved bytes only comes out unchanged.
C5_EscapingPolicy ==
    pc = "done" =>
        /\ \A flag \in BOOLEAN : escape(EscInput, flag) = Escaped(EscInput, flag)
        /\ Parts[2].AllowReserved = (EscOperator \in {<<43>>, <<35>>})
        /\ Len(EscInput) > 0 =>
             out = Cat3(Parts[2].First,
                        IF Parts[2].Named THEN <<118, 61>> ELSE <<>>,
                        Escaped(EscInput, EscOperator \in {<<43>>, <<35>>}))
        /\ (\A i \in 1..Len(EscInput) : EscInput[i] \in UnreservedBytes)
             => escape(EscInput, FALSE) = EscInput /\ escape(EscInput, TRUE) = EscInput

\* {+v} with v = "/ " has been expanded to "/%20", and {/v} would escape both.
C5_Witness ==
    /\ pc = "done"
    /\ raw = <<123, 43, 118, 125>>
    /\ EscInput = <<47, 32>>
    /\ out = <<47, 37, 50, 48>>

(***************************************************************************)
(* C6  Sequence expansion                                                  *)
(***************************************************************************)
\* The one defined term of the expression, when there is exactly one.
OnlyDefined(part) ==
    CHOOSE j \in 1..Len(part.Terms) : Defined(part.Terms[j])

ExactlyOneDefined(part) ==
    Cardinality({j \in 1..Len(part.Terms) : Defined(part.Terms[j])}) = 1

\* An element of an exploded sequence: name=value for a named operator (the
\* operator's empty suffix in place of '=' when the value is empty), else the
\* bare value; the prefix length applies to each element.
ExplodedElem(part, t, e) ==
    (IF part.Named
     THEN t.Name \o (IF Len(truncated(t, e)) = 0 THEN part.Ifemp ELSE <<61>>)
     ELSE <<>>)
    \o escape(truncated(t, e), part.AllowReserved)

\* What the claim gives for a non-empty sequence a of term t.
SequenceText(part, t, a) ==
    IF t.Explode
    THEN Join([i \in 1..Len(a) |-> ExplodedElem(part, t, a[i])], part.Sep)
    ELSE (IF part.Named THEN t.Name \o <<61>> ELSE <<>>)
         \o Join([i \in 1..Len(a) |-> escape(truncated(t, a[i]), part.AllowReserved)], <<44>>)

\* C6: an expression whose only defined term holds a non-empty sequence expands
\* to the leading string followed by the sequence: not exploded, the name prefix
\* once and the escaped elements joined by ','; exploded, one name=value or bare
\* value per element, joined by the operator's separator, in sequence order.
C6_SequenceExpansion ==
    (Returned /\ ExactlyOneDefined(Parts[2])
       /\ value.m[Parts[2].Terms[OnlyDefined(Parts[2])].Name].kind = "array"
       /\ Len(value.m[Parts[2].Terms[OnlyDefined(Parts[2])].Name].a) > 0)
    => out = Parts[1].Raw \o Parts[2].First
             \o SequenceText(Parts[2], Parts[2].Terms[OnlyDefined(Parts[2])],
                             value.m[Parts[2].Terms[OnlyDefined(Parts[2])].Name].a)
             \o Parts[3].Raw

(***************************************************************************)
(* C7  The error for several colons                                        *)
(***************************************************************************)
\* The template is {t}, t one term text with two colons or more.
SeveralColons ==
    /\ Len(raw) >= 4
    /\ raw[1] = 123 /\ raw[Len(raw)] = 125
    /\ \A j \in 2..(Len(raw) - 1) : raw[j] \notin {123, 125, 44}
    /\ Cardinality({j \in 2..(Len(raw) - 1) : raw[j] = 58}) >= 2

\* C7: a term with more than one ':' makes Parse fail with the error
\* "multiple colons in same term".
C7_MultipleColonsError ==
    (pc # "start" /\ SeveralColons)
        => (pc = "failed" /\ perr.msg = "multiple colons in same term")

(***************************************************************************)
(* C8  Empty sequences and maps                                            *)
(***************************************************************************)
EmptyComposite(v) ==
    \/ v.kind = "array" /\ Len(v.a) = 0
    \/ v.kind = "map" /\ DOMAIN v.m = {}

\* The value map with the variables holding an empty sequence or map left out.
WithoutEmpties(values) ==
    [n \in {x \in DOMAIN values : ~EmptyComposite(values[x])} |-> values[n]]

\* C8: a term whose value is an empty sequence or an empty map contributes
\* nothing: the string Expand returns is one it may return with that variable
\* absent, at every position of the term.
C8_EmptyCompositeAsAbsent ==
    Returned => Outcome \in Outcomes(Parts, WithoutEmpties(value.m))

(***************************************************************************)
(* C9  Leading-string rule                                                 *)
(***************************************************************************)
\* A term of the part holds exactly the empty string.
SomeEmptyString(part) ==
    \E j \in 1..Len(part.Terms) :
        /\ Defined(part.Terms[j])
        /\ value.m[part.Terms[j].Name].kind = "string"
        /\ Len(value.m[part.Terms[j].Name].s) = 0

\* C9: for every expression expanded: what the earlier segments produced is kept
\* as it was; if no term wrote content the expression contributes nothing, unless
\* a term held exactly the empty string, and then it contributes the leading
\* string alone; if a term wrote content the leading string comes first.
C9_LeadingStringRule ==
    Expanding =>
        \A i \in 1..Len(marks) :
            Len(Parts[i].Raw) = 0 =>
                /\ IsPrefix(Before(i), marks[i])
                /\ (~wrotes[i] /\ ~SomeEmptyString(Parts[i])) => marks[i] = Before(i)
                /\ (~wrotes[i] /\ SomeEmptyString(Parts[i]))
                     => marks[i] = Before(i) \o Parts[i].First
                /\ wrotes[i] => /\ IsPrefix(Before(i) \o Parts[i].First, marks[i])
                                /\ Len(marks[i]) > Len(Before(i)) + Len(Parts[i].First)

\* X{.a}Z with a = "" has been expanded to "X.Z".
C9_Witness ==
    /\ pc = "done"
    /\ raw = <<88, 123, 46, 97, 125, 90>>
    /\ <<97>> \in DOMAIN value.m /\ value.m[<<97>>] = StringVal(<<>>)
    /\ wrotes = <<TRUE, FALSE, TRUE>>
    /\ out = <<88, 46, 90>>

(***************************************************************************)
(* C10  String terms of the operators without names                        *)
(***************************************************************************)
\* The terms of the part that are defined, in declared order.
DefinedTerms(part) == SelectSeq(part.Terms, Defined)

\* C10: for an operator without names, when the defined terms all hold strings
\* and there is at least one, the expression expands to the leading string and
\* the escaped values (cut to their prefix lengths) in declared order, joined by
\* the separator: k values, k - 1 separators.
C10_StringsJoined ==
    (Returned /\ ~Parts[2].Named /\ Len(DefinedTerms(Parts[2])) >= 1
       /\ \A j \in 1..Len(DefinedTerms(Parts[2])) :
            value.m[DefinedTerms(Parts[2])[j].Name].kind = "string")
    => out = Parts[1].Raw \o Parts[2].First
             \o Join([j \in 1..Len(DefinedTerms(Parts[2])) |->
                        escape(truncated(DefinedTerms(Parts[2])[j],
                                         value.m[DefinedTerms(Parts[2])[j].Name].s),
                               Parts[2].AllowReserved)],
                     Parts[2].Sep)
             \o Parts[3].Raw

=============================================================================
